---- MODULE Spec2Model ----
(***************************************************************************)
(* HeartWise ML analysis service.                                          *)
(*                                                                         *)
(* ml-service/ecg_analyzer.py : ECGAnalyzer (signal quality, Pan-Tompkins  *)
(*   QRS detection, heart rate, HRV, rule-based arrhythmia classifier,     *)
(*   confidence, recommendations, the analyze orchestrator).               *)
(* ml-service/app.py : the Flask handlers /analyze and /batch-analyze on   *)
(*   the single process-wide analyzer.                                     *)
(*                                                                         *)
(* Numbers.  The code computes in IEEE doubles; the model computes the     *)
(* same quantities exactly, as integers and fractions:                     *)
(*   - a voltage is an integer number of tens of threshold units;          *)
(*   - an RR-interval list is [s |-> numerators, d |-> denominator], the   *)
(*     i-th interval being s[i]/d seconds (d = sample_rate after           *)
(*     np.diff(r_peaks) / sample_rate);                                    *)
(*   - a heart rate is a fraction [n |-> , d |-> ] in BPM;                 *)
(*   - every comparison with a threshold is cross-multiplied, so that it   *)
(*     is decided as the real numbers decide it (the doubles can differ    *)
(*     from it only on an exact tie).                                      *)
(* The library calls (numpy, scipy.signal) are modelled by what their      *)
(* documentation and source say they do.  The band-pass filter itself      *)
(* (butter + filtfilt) is not computed: a signal carries, next to its      *)
(* voltages, the waveform the filter returns for it.                       *)
(***************************************************************************)
EXTENDS Integers, Sequences, FiniteSets, TLC

\* ------------------------------------------------------------------ bounds
\* Longest run-length description of a voltage list (number of runs).
MaxRuns == 2
\* Most sessions in one /batch-analyze body.
MaxSessions == 3
\* Most RR intervals handed to detect_arrhythmias on its own.
MaxIntervals == 6

\* ------------------------------------------------------------ arithmetic
Abs(x) == IF x < 0 THEN -x ELSE x

Min(a, b) == IF a < b THEN a ELSE b

Max(a, b) == IF a < b THEN b ELSE a

\* int(x) of a non-negative fraction num/den: truncation toward zero.
IntTrunc(num, den) == num \div den

\* round(num/den) to the nearest integer, ties to the even one (Python's round).
RoundHalfEven(num, den) ==
    LET q == num \div den
        r == num % den
    IN  IF 2 * r < den THEN q
        ELSE IF 2 * r > den THEN q + 1
        ELSE IF q % 2 = 0 THEN q ELSE q + 1

RECURSIVE GCD(_, _)
GCD(a, b) == IF b = 0 THEN a ELSE GCD(b, a % b)

RECURSIVE SumSeq(_)
SumSeq(s) == IF s = <<>> THEN 0 ELSE Head(s) + SumSeq(Tail(s))

RECURSIVE SumSq(_)
SumSq(s) == IF s = <<>> THEN 0 ELSE Head(s) * Head(s) + SumSq(Tail(s))

SeqMax(s) == CHOOSE m \in {s[i] : i \in DOMAIN s} : \A i \in DOMAIN s : s[i] <= m

SeqMin(s) == CHOOSE m \in {s[i] : i \in DOMAIN s} : \A i \in DOMAIN s : m <= s[i]

\* Largest r in lo..hi with r * r <= x (bisection; lo * lo <= x < (hi+1)^2).
RECURSIVE ISqrtIn(_, _, _)
ISqrtIn(x, lo, hi) ==
    IF lo >= hi THEN lo
    ELSE LET mid == (lo + hi + 1) \div 2
         IN  IF mid * mid <= x THEN ISqrtIn(x, mid, hi) ELSE ISqrtIn(x, lo, mid - 1)

\* floor(sqrt(x)) for 0 <= x < 2^31.
ISqrt(x) == ISqrtIn(x, 0, 46340)

\* np.diff of a sequence.
Diff(s) == [i \in 1..(Len(s) - 1) |-> s[i + 1] - s[i]]

\* n * n * variance of the sequence s of n numbers: n * sum(x^2) - sum(x)^2.
ScaledVar(s) == Len(s) * SumSq(s) - SumSeq(s) * SumSeq(s)

\* ---------------------------------------------------------------- signals
\* A voltage list is described by runs: run [ok, v, k] is k consecutive
\* samples of value v; ok = FALSE is a value float() cannot convert.
RECURSIVE SigLen(_)
SigLen(runs) == IF runs = <<>> THEN 0 ELSE Head(runs).k + SigLen(Tail(runs))

RECURSIVE SigSum(_)
SigSum(runs) ==
    IF runs = <<>> THEN 0 ELSE Head(runs).k * Head(runs).v + SigSum(Tail(runs))

RECURSIVE SigSumSq(_)
SigSumSq(runs) ==
    IF runs = <<>> THEN 0
    ELSE Head(runs).k * Head(runs).v * Head(runs).v + SigSumSq(Tail(runs))

SigValues(runs) == {runs[i].v : i \in {j \in DOMAIN runs : runs[j].k > 0}}

SigMax(runs) == CHOOSE m \in SigValues(runs) : \A v \in SigValues(runs) : v <= m

SigMin(runs) == CHOOSE m \in SigValues(runs) : \A v \in SigValues(runs) : m <= v

\* np.array(ecg_signal, dtype=float) raises ValueError on a non-numeric entry.
ArrayRaises(runs) == \E i \in DOMAIN runs : runs[i].k > 0 /\ ~runs[i].ok

\* ------------------------------------------------- _assess_signal_quality
\* One model voltage unit is 10 units of the code's thresholds
\* (the factor 10 below), so that a long trace stays within 32-bit arithmetic.
StdPoor == 10

RangePoor == 50

StdFair == 50

RangeFair == 200

\* An exception: its Python type and its message; NoFault is "nothing raised".
Fault(type, msg) == [type |-> type, msg |-> msg]

NoFault == Fault("", "")

\* The fault lines 302-303 raise on this voltage list: np.array(.., dtype=float)
\* rejects a non-numeric entry, np.max rejects an empty array.
QualityFault(runs) ==
    IF ArrayRaises(runs) THEN Fault("ValueError", "could not convert string to float")
    ELSE IF SigLen(runs) = 0
         THEN Fault("ValueError", "zero-size array to reduction operation maximum")
    ELSE NoFault

\* n * n * var(signal), in model units squared.
SigScaledVar(runs) == SigLen(runs) * SigSumSq(runs) - SigSum(runs) * SigSum(runs)

\* np.std(signal_array) < bound, bound in the code's units.
StdBelow(runs, bound) ==
    10 * 10 * SigScaledVar(runs) < bound * bound * SigLen(runs) * SigLen(runs)

signal_range(runs) == 10 * (SigMax(runs) - SigMin(runs))

\* std_deviation is kept to whole units (the code keeps two decimals).
assess_signal_quality(runs) ==
    LET quality ==
            IF StdBelow(runs, StdPoor) \/ signal_range(runs) < RangePoor THEN "Poor"
            ELSE IF StdBelow(runs, StdFair) \/ signal_range(runs) < RangeFair THEN "Fair"
            ELSE "Good"
    IN  [quality |-> quality,
         score |-> CASE quality = "Poor" -> 3 [] quality = "Fair" -> 6 [] OTHER -> 9,
         std_deviation |->
            ISqrt(10 * 10 * SigScaledVar(runs)) \div SigLen(runs),
         signal_range |-> signal_range(runs)]

\* ------------------------------------------------------------- preprocess
\* butter(2, [low, high], btype='band') has 5 coefficients, so filtfilt pads
\* with 3 * 5 samples and rejects an input no longer than that.
PadLen == 15

\* Upper cutoff of the band-pass, Hz: high = 15 / (sample_rate / 2).
HighCut == 15

\* The fault preprocess raises on this input, NoFault when it returns.
\*   sample_rate = 0         : 5 / nyquist divides by zero;
\*   high = 30/sample_rate >= 1 or < 0 : butter rejects Wn outside (0, 1);
\*   len(x) <= padlen        : filtfilt rejects the input.
PreprocessFault(sig, sample_rate) ==
    IF ArrayRaises(sig.runs)
    THEN Fault("ValueError", "could not convert string to float")
    ELSE IF sample_rate = 0
    THEN Fault("ZeroDivisionError", "float division by zero")
    ELSE IF sample_rate < 0 \/ 2 * HighCut >= sample_rate
    THEN Fault("ValueError", "Digital filter critical frequencies must be 0 < Wn < 1")
    ELSE IF SigLen(sig.runs) <= PadLen
    THEN Fault("ValueError", "The length of the input vector x must be greater than padlen")
    ELSE NoFault

\* The waveform scipy's filtfilt returns for the signal: zero but for spikes.
\* wave = [first, gaps, amps, count]: spike number m (m = 0, 1, ..., count-1)
\* has amplitude amps[m mod Len(amps)] and follows spike m-1 by
\* gaps[(m-1) mod Len(gaps)] samples; spike 0 is at index first (1-based).
RECURSIVE PrefixSum(_, _)
PrefixSum(s, k) == IF k = 0 THEN 0 ELSE s[k] + PrefixSum(s, k - 1)

SpikeNumber(wave, i) ==
    LET period == SumSeq(wave.gaps)
        m == Len(wave.gaps)
        off == (i - wave.first) % period
        hits == {j \in 0..(m - 1) : PrefixSum(wave.gaps, j) = off}
    IN  IF i < wave.first \/ hits = {} THEN -1
        ELSE m * ((i - wave.first) \div period) + (CHOOSE j \in hits : TRUE)

preprocess(sig) ==
    [i \in 1..SigLen(sig.runs) |->
        LET m == SpikeNumber(sig.wave, i)
        IN  IF m < 0 \/ m >= sig.wave.count THEN 0
            ELSE sig.wave.amps[(m % Len(sig.wave.amps)) + 1]]

\* ------------------------------------------------ detect_qrs_pan_tompkins
RECURSIVE SumRange(_, _, _)
SumRange(s, lo, hi) == IF lo > hi THEN 0 ELSE s[lo] + SumRange(s, lo + 1, hi)

\* squared = np.diff(filtered) ** 2
Squared(filtered) ==
    [i \in 1..(Len(filtered) - 1) |->
        (filtered[i + 1] - filtered[i]) * (filtered[i + 1] - filtered[i])]

\* A variant of WindowSize: round(0.15 * sample_rate), halves up.
WindowSizeRounded(sample_rate) == (15 * sample_rate + 50) \div 100

\* window_size = int(0.15 * sample_rate)
WindowSize(sample_rate) == IntTrunc(15 * sample_rate, 100)

\* distance = int(0.2 * sample_rate)
PeakDistance(sample_rate) == IntTrunc(2 * sample_rate, 10)

\* window_size * np.convolve(squared, np.ones(window_size) / window_size, 'same'):
\* the centred slice, max(M, N) long, of the full convolution, which starts at
\* index (min(M, N) - 1) div 2 of it.  The common factor 1 / window_size is left
\* out: the threshold is relative and the peaks are the same.
Integrated(squared, window_size) ==
    LET M == Len(squared)
        N == window_size
        start == (Min(M, N) - 1) \div 2
    IN  [i \in 1..Max(M, N) |->
            SumRange(squared, Max(1, i + start - (N - 1)), Min(M, i + start))]

\* scipy _local_maxima_1d: a sample, or the middle (rounded down) of a flat
\* run of samples, higher than both its neighbours; never the first or last
\* sample.  Indices are 1-based here.
RECURSIVE PlateauEnd(_, _)
PlateauEnd(x, i) == IF i < Len(x) /\ x[i + 1] = x[i] THEN PlateauEnd(x, i + 1) ELSE i

LocalMaxima(x) ==
    {(l + PlateauEnd(x, l)) \div 2 :
        l \in {i \in 2..(Len(x) - 1) :
                  /\ x[i - 1] < x[i]
                  /\ PlateauEnd(x, i) < Len(x)
                  /\ x[PlateauEnd(x, i) + 1] < x[i]}}

\* scipy _select_by_peak_distance: peaks are visited from the highest down
\* (among equals, the later first); a peak still kept removes every peak
\* closer than distance to it.
RECURSIVE SelectByDistance(_, _, _)
SelectByDistance(cands, x, distance) ==
    IF cands = {} THEN {}
    ELSE LET j == CHOOSE p \in cands :
                    \A q \in cands : x[q] < x[p] \/ (x[q] = x[p] /\ q <= p)
         IN  {j} \cup SelectByDistance({k \in cands : Abs(k - j) >= distance}, x, distance)

\* The set as the increasing sequence of its elements.
RECURSIVE SortedSeq(_)
SortedSeq(S) ==
    IF S = {} THEN <<>>
    ELSE LET m == CHOOSE a \in S : \A b \in S : b <= a
         IN  Append(SortedSeq(S \ {m}), m)

\* find_peaks(integrated, height=0.3 * max(integrated), distance=distance),
\* as 0-based indices.
FindPeaks(integrated, distance) ==
    LET top == SeqMax(integrated)
        high == {p \in LocalMaxima(integrated) : 10 * integrated[p] >= 3 * top}
        kept == SelectByDistance(high, integrated, distance)
    IN  SortedSeq({p - 1 : p \in kept})

detect_qrs_pan_tompkins(sig, sample_rate) ==
    FindPeaks(Integrated(Squared(preprocess(sig)), WindowSize(sample_rate)),
              PeakDistance(sample_rate))

\* --------------------------------------------------- calculate_heart_rate
NoIntervals == [s |-> <<>>, d |-> 1]

\* rr_intervals = np.diff(r_peaks) / sample_rate, or [] under two peaks.
RRIntervals(r_peaks, sample_rate) ==
    IF Len(r_peaks) < 2 THEN NoIntervals ELSE [s |-> Diff(r_peaks), d |-> sample_rate]

\* 60 / np.mean(rr_intervals) as a fraction, BPM.
MeanRate(rr) == [n |-> 60 * Len(rr.s) * rr.d, d |-> SumSeq(rr.s)]

calculate_heart_rate(r_peaks, sample_rate) ==
    IF Len(r_peaks) < 2
    THEN [heart_rate |-> [n |-> 0, d |-> 1], rr_intervals |-> NoIntervals]
    ELSE [heart_rate |-> MeanRate(RRIntervals(r_peaks, sample_rate)),
          rr_intervals |-> RRIntervals(r_peaks, sample_rate)]

\* ----------------------------------------------------------- calculate_hrv
\* SDNN and RMSSD are kept as their exact squares, fractions of s^2 (the code
\* takes the root, in ms, to two decimals); pNN50 is in hundredths of a percent.
calculate_hrv(rr) ==
    IF Len(rr.s) < 2
    THEN [SDNN |-> [n |-> 0, d |-> 1], RMSSD |-> [n |-> 0, d |-> 1], pNN50 |-> 0]
    ELSE LET diff_rr == Diff(rr.s)
             nn50 == Cardinality({i \in DOMAIN diff_rr : 1000 * Abs(diff_rr[i]) > 50 * rr.d})
         IN  [SDNN |-> [n |-> ScaledVar(rr.s), d |-> Len(rr.s) * Len(rr.s) * rr.d * rr.d],
              RMSSD |-> [n |-> SumSq(diff_rr), d |-> Len(diff_rr) * rr.d * rr.d],
              pNN50 |-> IF Len(diff_rr) > 0
                        THEN RoundHalfEven(nn50 * 10000, Len(diff_rr)) ELSE 0]

\* ------------------------------------------------------ detect_arrhythmias
\* heart_rate < bpm, heart_rate > bpm for the fraction heart_rate.
RateBelow(heart_rate, bpm) == heart_rate.n < bpm * heart_rate.d

RateAbove(heart_rate, bpm) == heart_rate.n > bpm * heart_rate.d

\* coefficient_of_variation > pct, where the coefficient is
\* (rr_std / rr_mean) * 100 if rr_mean > 0 else 0:
\* std/mean = sqrt(ScaledVar)/sum, so cv > pct iff
\* (100/g)^2 * ScaledVar > (pct/g)^2 * sum^2, g = gcd(100, pct).
CVAbove(rr, pct) ==
    /\ SumSeq(rr.s) > 0
    /\ (100 \div GCD(100, pct)) * (100 \div GCD(100, pct)) * ScaledVar(rr.s)
         > (pct \div GCD(100, pct)) * (pct \div GCD(100, pct))
             * SumSeq(rr.s) * SumSeq(rr.s)

\* The state of one run of the rule engine.
RuleStart == [classification |-> "Normal Sinus Rhythm", abnormalities |-> <<>>,
              risk_level |-> "Low"]

Finding(type, severity) == [type |-> type, severity |-> severity]

\* 1. Bradycardia Detection
RuleBradycardia(st, heart_rate, rr) ==
    IF RateBelow(heart_rate, 60)
    THEN LET severe == RateBelow(heart_rate, 40)
         IN  [classification |-> "Sinus Bradycardia",
              abnormalities |-> Append(st.abnormalities,
                  Finding("Sinus Bradycardia", IF severe THEN "High" ELSE "Medium")),
              risk_level |-> IF severe THEN "High" ELSE "Medium"]
    ELSE st

\* 2. Tachycardia Detection (the elif of rule 1)
RuleTachycardia(st, heart_rate, rr) ==
    IF RateBelow(heart_rate, 60) \/ ~RateAbove(heart_rate, 100) THEN st
    ELSE IF RateAbove(heart_rate, 150)
    THEN IF CVAbove(rr, 15)
         THEN [classification |-> "Ventricular Tachycardia (Suspected)",
               abnormalities |-> Append(st.abnormalities,
                   Finding("Ventricular Tachycardia", "Critical")),
               risk_level |-> "High"]
         ELSE [classification |-> "Sinus Tachycardia",
               abnormalities |-> Append(st.abnormalities,
                   Finding("Sinus Tachycardia", "High")),
               risk_level |-> "High"]
    ELSE [classification |-> "Sinus Tachycardia",
          abnormalities |-> Append(st.abnormalities,
              Finding("Sinus Tachycardia", "Medium")),
          risk_level |-> "Medium"]

\* large_differences = np.sum(np.abs(np.diff(rr_intervals)) > 0.12)
LargeDifferences(rr) ==
    Cardinality({i \in DOMAIN Diff(rr.s) : 100 * Abs(Diff(rr.s)[i]) > 12 * rr.d})

\* A variant of ManyLargeDifferences: more than half of the intervals.
ManyLargeDifferencesHalf(rr) == 10 * LargeDifferences(rr) > 5 * Len(rr.s)

\* large_differences > len(rr_intervals) * 0.3
ManyLargeDifferences(rr) == 10 * LargeDifferences(rr) > 3 * Len(rr.s)

\* 3. Atrial Fibrillation Detection (Irregular rhythm)
RuleIrregular(st, heart_rate, rr) ==
    IF ~CVAbove(rr, 20) THEN st
    ELSE IF ManyLargeDifferences(rr)
    THEN [classification |-> "Atrial Fibrillation (Suspected)",
          abnormalities |-> Append(st.abnormalities,
              Finding("Atrial Fibrillation", "High")),
          risk_level |-> "High"]
    ELSE [classification |-> IF st.classification = "Normal Sinus Rhythm"
                             THEN "Sinus Arrhythmia" ELSE st.classification,
          abnormalities |-> Append(st.abnormalities,
              Finding("Irregular Rhythm", "Medium")),
          risk_level |-> "Medium"]

\* pvc_count = np.sum(np.abs(rr_intervals - rr_mean) > 2 * rr_std):
\* |x - sum/n| > 2 * sqrt(ScaledVar)/n  iff  (n*x - sum)^2 > 4 * ScaledVar.
PvcCount(rr) ==
    Cardinality({i \in DOMAIN rr.s :
        (Len(rr.s) * rr.s[i] - SumSeq(rr.s)) * (Len(rr.s) * rr.s[i] - SumSeq(rr.s))
            > 4 * ScaledVar(rr.s)})

\* The words of a classification label that the code looks for with `in`.
LabelWords(classification) ==
    CASE classification = "Normal Sinus Rhythm" -> {"Normal"}
      [] classification = "Sinus Bradycardia" -> {"Bradycardia"}
      [] classification = "Sinus Tachycardia" -> {"Tachycardia"}
      [] classification = "Ventricular Tachycardia (Suspected)" -> {"Tachycardia"}
      [] classification = "Atrial Fibrillation (Suspected)" -> {"Fibrillation"}
      [] OTHER -> {}

C9_RiskRank(risk_level) ==
    CASE risk_level = "Low" -> 1
      [] risk_level = "Medium" -> 2
      [] risk_level = "High" -> 3
      [] risk_level = "Critical" -> 4
      [] OTHER -> 0

\* A variant of RulePVC: the classification is left as it is.
RulePVCKeepsLabel(st, heart_rate, rr) ==
    IF Len(rr.s) > 3 /\ PvcCount(rr) > 0 /\ 10 * PvcCount(rr) > Len(rr.s)
    THEN [classification |-> st.classification,
          abnormalities |-> Append(st.abnormalities,
              Finding("Premature Ventricular Contractions", "Medium")),
          risk_level |-> "Medium"]
    ELSE st

\* A variant of RulePVC: the risk level is raised to Medium, never lowered.
RulePVCRaising(st, heart_rate, rr) ==
    IF Len(rr.s) > 3 /\ PvcCount(rr) > 0 /\ 10 * PvcCount(rr) > Len(rr.s)
    THEN [classification |-> IF "Normal" \in LabelWords(st.classification)
                             THEN "Premature Ventricular Contractions"
                             ELSE st.classification,
          abnormalities |-> Append(st.abnormalities,
              Finding("Premature Ventricular Contractions", "Medium")),
          risk_level |-> IF C9_RiskRank(st.risk_level) > 2 THEN st.risk_level ELSE "Medium"]
    ELSE st

\* 4. Premature Ventricular Contractions (PVCs) Detection
\* pvc_percentage = pvc_count / len * 100 > 10  iff  10 * pvc_count > len.
RulePVC(st, heart_rate, rr) ==
    IF Len(rr.s) > 3 /\ PvcCount(rr) > 0 /\ 10 * PvcCount(rr) > Len(rr.s)
    THEN [classification |-> IF "Normal" \in LabelWords(st.classification)
                             THEN "Premature Ventricular Contractions"
                             ELSE st.classification,
          abnormalities |-> Append(st.abnormalities,
              Finding("Premature Ventricular Contractions", "Medium")),
          risk_level |-> "Medium"]
    ELSE st

\* 5. Normal Sinus Rhythm
RuleNormal(st, heart_rate, rr) ==
    IF Len(st.abnormalities) = 0
    THEN [classification |-> "Normal Sinus Rhythm",
          abnormalities |-> <<Finding("Normal", "None")>>,
          risk_level |-> "Low"]
    ELSE st

InsufficientData == [classification |-> "Insufficient Data", abnormalities |-> <<>>,
                     risk_level |-> "Unknown"]

\* The rules 1 to 5 in order.
Rules(heart_rate, rr) ==
    RuleNormal(
        RulePVC(
          RuleIrregular(
            RuleTachycardia(
              RuleBradycardia(RuleStart, heart_rate, rr),
              heart_rate, rr),
            heart_rate, rr),
          heart_rate, rr),
        heart_rate, rr)

\* A variant of detect_arrhythmias without the check for enough data.
DetectWithoutCheck(heart_rate, rr) == Rules(heart_rate, rr)

detect_arrhythmias(heart_rate, rr) ==
    IF Len(rr.s) < 2 THEN InsufficientData
    ELSE Rules(heart_rate, rr)

\* ------------------------------------------------ _generate_recommendations
UrgentBlock == <<"IMPORTANT: Consult a cardiologist as soon as possible",
                 "Consider wearing a continuous heart monitor">>

TachycardiaBlock == <<"Practice relaxation techniques and reduce stress",
                      "Limit caffeine and stimulant intake",
                      "Review medications with your doctor">>

BradycardiaBlock == <<"Monitor for symptoms like dizziness or fatigue",
                      "Discuss exercise tolerance with your doctor">>

FibrillationBlock == <<"Anticoagulation therapy may be needed - consult doctor",
                       "Regular ECG monitoring recommended",
                       "Avoid alcohol and excessive caffeine">>

NormalBlock == <<"Heart rhythm is normal",
                 "Continue regular exercise and healthy diet",
                 "Monitor periodically for baseline comparison">>

\* A variant of generate_recommendations: the risk check comes last.
RecommendUrgentLast(classification, risk_level, heart_rate) ==
    (IF "Tachycardia" \in LabelWords(classification) THEN TachycardiaBlock ELSE <<>>)
    \o (IF "Bradycardia" \in LabelWords(classification) THEN BradycardiaBlock ELSE <<>>)
    \o (IF "Fibrillation" \in LabelWords(classification) THEN FibrillationBlock ELSE <<>>)
    \o (IF classification = "Normal Sinus Rhythm" THEN NormalBlock ELSE <<>>)
    \o (IF risk_level = "Critical" \/ risk_level = "High" THEN UrgentBlock ELSE <<>>)

generate_recommendations(classification, risk_level, heart_rate) ==
    (IF risk_level = "Critical" \/ risk_level = "High" THEN UrgentBlock ELSE <<>>)
    \o (IF "Tachycardia" \in LabelWords(classification) THEN TachycardiaBlock ELSE <<>>)
    \o (IF "Bradycardia" \in LabelWords(classification) THEN BradycardiaBlock ELSE <<>>)
    \o (IF "Fibrillation" \in LabelWords(classification) THEN FibrillationBlock ELSE <<>>)
    \o (IF classification = "Normal Sinus Rhythm" THEN NormalBlock ELSE <<>>)

\* ------------------------------------------------------------------ analyze
\* confidence in thousandths: round(0.85 + (min(n, 50) / 50) * 0.15, 3) is
\* 850 + 3 * min(n, 50) thousandths, round(0.65 + (min(n, 50) / 50) * 0.20, 3)
\* is 650 + 4 * min(n, 50).
\* A variant of Confidence without the cap of 50 peaks.
ConfidenceUncapped(signal_quality, r_peaks) ==
    IF signal_quality.quality = "Good" /\ Len(r_peaks) > 10
    THEN 850 + (Len(r_peaks) * 150) \div 50
    ELSE IF signal_quality.quality = "Fair" /\ Len(r_peaks) > 5
    THEN 650 + (Len(r_peaks) * 200) \div 50
    ELSE 500

Confidence(signal_quality, r_peaks) ==
    IF signal_quality.quality = "Good" /\ Len(r_peaks) > 10
    THEN 850 + (Min(Len(r_peaks), 50) * 150) \div 50
    ELSE IF signal_quality.quality = "Fair" /\ Len(r_peaks) > 5
    THEN 650 + (Min(Len(r_peaks), 50) * 200) \div 50
    ELSE 500

\* cv = (rr_std / rr_mean) * 100 if rr_mean > 0 else 100; "Regular" if cv < 10.
\* cv < 10 iff 100 * ScaledVar < sum^2.
Rhythm(rr) ==
    IF Len(rr.s) > 0
    THEN IF SumSeq(rr.s) > 0 /\ 100 * ScaledVar(rr.s) < SumSeq(rr.s) * SumSeq(rr.s)
         THEN "Regular" ELSE "Irregular"
    ELSE "Unknown"

\* The record of the normal return (lines 334-352); rates are in tenths of a
\* BPM (round(.., 1)).
ResultRecord(signal_quality, r_peaks, hr, hrv_metrics, verdict) ==
    [classification |-> verdict.classification,
     confidence |-> Confidence(signal_quality, r_peaks),
     risk_level |-> verdict.risk_level,
     details |->
        [heartRate |-> RoundHalfEven(10 * hr.heart_rate.n, hr.heart_rate.d),
         heartRateRange |->
            [min |-> IF Len(hr.rr_intervals.s) > 0
                     THEN RoundHalfEven(600 * hr.rr_intervals.d, SeqMax(hr.rr_intervals.s))
                     ELSE 0,
             max |-> IF Len(hr.rr_intervals.s) > 0
                     THEN RoundHalfEven(600 * hr.rr_intervals.d, SeqMin(hr.rr_intervals.s))
                     ELSE 0],
         rhythm |-> Rhythm(hr.rr_intervals),
         qrsCount |-> Len(r_peaks),
         hrv |-> hrv_metrics,
         abnormalities |-> verdict.abnormalities,
         signalQuality |-> signal_quality],
     analysis_type |-> "hybrid_ml_enhanced",
     recommendations |->
        generate_recommendations(verdict.classification, verdict.risk_level,
                                 hr.heart_rate)]

\* The record of the except branch (lines 356-367).
ErrorRecord(message) ==
    [classification |-> "Analysis Error",
     confidence |-> 0,
     risk_level |-> "Unknown",
     details |-> [error |-> message, heartRate |-> 0, rhythm |-> "Unknown",
                  abnormalities |-> <<>>],
     analysis_type |-> "error"]

\* A variant of Catches: `except ValueError`.
CatchesValueError(fault) == fault.type = "ValueError"

\* `except Exception` (line 354): the exception types it catches.  Every
\* fault of the pipeline is a ValueError, a ZeroDivisionError or a TypeError.
Catches(fault) == fault.type \in {"ValueError", "ZeroDivisionError", "TypeError", "KeyError"}

\* ------------------------------------------------------------------- inputs
Run(ok, v, k) == [ok |-> ok, v |-> v, k |-> k]

\* Voltages (tens of threshold units) and run lengths of the voltage lists.
Volts == {0, 20}

RunLens == {8, 160}

RunOptions == {Run(TRUE, v, k) : v \in Volts, k \in RunLens}
                \cup {Run(FALSE, 0, 8)}

RECURSIVE SeqsUpTo(_, _)
SeqsUpTo(S, n) ==
    IF n = 0 THEN {<<>>}
    ELSE SeqsUpTo(S, n - 1)
            \cup {Append(q, e) : q \in {r \in SeqsUpTo(S, n - 1) : Len(r) = n - 1}, e \in S}

RunSeqs == SeqsUpTo(RunOptions, MaxRuns)

Wave(first, gaps, amps, count) ==
    [first |-> first, gaps |-> gaps, amps |-> amps, count |-> count]

FlatWave == Wave(1, <<1>>, <<0>>, 0)

GapMotifs == {<<5>>, <<6>>, <<24>>, <<36>>, <<12, 36>>}

AmpMotifs == {<<2>>, <<2, 1>>}

SpikeCounts == {1, 2, 3, 6, 11, 51}

Waves == {FlatWave}
            \cup {Wave(4, g, a, c) : g \in GapMotifs, a \in AmpMotifs, c \in SpikeCounts}

\* The index (1-based) of the last spike of a waveform.
LastSpike(wave) ==
    wave.first + ((wave.count - 1) \div Len(wave.gaps)) * SumSeq(wave.gaps)
               + PrefixSum(wave.gaps, (wave.count - 1) % Len(wave.gaps))

\* The filter returns a waveform only for a numeric list it accepts, and the
\* waveform of n samples has its spikes among them.
WavesOf(runs) ==
    IF ArrayRaises(runs) \/ SigLen(runs) <= PadLen THEN {FlatWave}
    ELSE {FlatWave} \cup {w \in Waves : w.count > 0 /\ LastSpike(w) <= SigLen(runs)}

Signals == UNION {{[runs |-> r, wave |-> w] : w \in WavesOf(r)} : r \in RunSeqs}

SampleRates == {0, 30, 31, 250}

\* The default of analyze's sample_rate parameter and of the handlers.
DefaultSampleRate == 250

\* -------------------------------------------------------------------- state
Threads == {1, 2}

VARIABLES
    analyzer,   \* the process-wide ECGAnalyzer: sample_rate, model, model_loaded
    call,       \* per thread: the activation of analyze (its locals and position)
    http,       \* per thread: the activation of a Flask handler
    clock,      \* datetime.now(), as the number of readings so far
    eng         \* one run of detect_arrhythmias, rule by rule

vars == <<analyzer, call, http, clock, eng>>

NoSignal == [runs |-> <<>>, wave |-> FlatWave]

NoQuality == [quality |-> "", score |-> 0, std_deviation |-> 0, signal_range |-> 0]

NoRate == [heart_rate |-> [n |-> 0, d |-> 1], rr_intervals |-> NoIntervals]

NoResult == [classification |-> ""]

IdleCall ==
    [pc |-> "idle", ecg_signal |-> NoSignal, sample_rate |-> 0,
     signal_quality |-> NoQuality, window_size |-> 0, r_peaks |-> <<>>, hr |-> NoRate,
     hrv_metrics |-> calculate_hrv(NoIntervals), verdict |-> RuleStart,
     fault |-> NoFault, result |-> NoResult]

\* analyzer.analyze(ecg_signal, sample_rate) is entered.
StartCall(ecg_signal, sample_rate) ==
    [IdleCall EXCEPT !.pc = "quality", !.ecg_signal = ecg_signal,
                     !.sample_rate = sample_rate]

\* ECGAnalyzer.__init__: the model is loaded when the imports of _load_model
\* succeed.
Analyzers ==
    {[sample_rate |-> DefaultSampleRate, model |-> "RandomForestClassifier",
      model_loaded |-> TRUE],
     [sample_rate |-> DefaultSampleRate, model |-> "None", model_loaded |-> FALSE]}

IdleHttp == [pc |-> "idle"]

IdleEng == [pc |-> "idle"]

\* ------------------------------------------------- analyze, run to its end
\* The record analyze returns for (ecg_signal, sample_rate) when nothing else
\* runs: the steps of lines 300-367 one after the other.
analyze(ecg_signal, sample_rate) ==
    IF QualityFault(ecg_signal.runs) # NoFault
    THEN ErrorRecord(QualityFault(ecg_signal.runs).msg)
    ELSE IF PreprocessFault(ecg_signal, sample_rate) # NoFault
    THEN ErrorRecord(PreprocessFault(ecg_signal, sample_rate).msg)
    ELSE LET r_peaks == detect_qrs_pan_tompkins(ecg_signal, sample_rate)
             hr == calculate_heart_rate(r_peaks, sample_rate)
         IN  ResultRecord(assess_signal_quality(ecg_signal.runs), r_peaks, hr,
                          calculate_hrv(hr.rr_intervals),
                          detect_arrhythmias(hr.heart_rate, hr.rr_intervals))

\* A variant of SelfAfterAnalyze: analyze stores self.sample_rate = sample_rate.
SelfStoresRate(self, sample_rate) == [self EXCEPT !.sample_rate = sample_rate]

\* The analyzer after analyze has run on it: analyze and the methods it calls
\* assign no attribute of self.
SelfAfterAnalyze(self, sample_rate) == self

\* ----------------------------------------------------- the steps of analyze
Raise(t, fault) == call' = [call EXCEPT ![t].pc = "except", ![t].fault = fault]

\* lines 302-303
AssessQuality(t) ==
    /\ call[t].pc = "quality"
    /\ IF QualityFault(call[t].ecg_signal.runs) # NoFault
       THEN Raise(t, QualityFault(call[t].ecg_signal.runs))
       ELSE call' = [call EXCEPT
                ![t].pc = "qrs",
                ![t].signal_quality = assess_signal_quality(call[t].ecg_signal.runs)]
    /\ analyzer' = SelfAfterAnalyze(analyzer, call[t].sample_rate)
    /\ UNCHANGED <<http, clock, eng>>

\* line 306
DetectQRS(t) ==
    /\ call[t].pc = "qrs"
    /\ IF PreprocessFault(call[t].ecg_signal, call[t].sample_rate) # NoFault
       THEN Raise(t, PreprocessFault(call[t].ecg_signal, call[t].sample_rate))
       ELSE call' = [call EXCEPT
                ![t].pc = "rate",
                ![t].window_size = WindowSize(call[t].sample_rate),
                ![t].r_peaks = detect_qrs_pan_tompkins(call[t].ecg_signal,
                                                       call[t].sample_rate)]
    /\ UNCHANGED <<analyzer, http, clock, eng>>

\* line 309
HeartRate(t) ==
    /\ call[t].pc = "rate"
    /\ call' = [call EXCEPT
            ![t].pc = "hrv",
            ![t].hr = calculate_heart_rate(call[t].r_peaks, call[t].sample_rate)]
    /\ UNCHANGED <<analyzer, http, clock, eng>>

\* line 312
HRV(t) ==
    /\ call[t].pc = "hrv"
    /\ call' = [call EXCEPT
            ![t].pc = "rules",
            ![t].hrv_metrics = calculate_hrv(call[t].hr.rr_intervals)]
    /\ UNCHANGED <<analyzer, http, clock, eng>>

\* line 315
Arrhythmias(t) ==
    /\ call[t].pc = "rules"
    /\ call' = [call EXCEPT
            ![t].pc = "assemble",
            ![t].verdict = detect_arrhythmias(call[t].hr.heart_rate,
                                              call[t].hr.rr_intervals)]
    /\ UNCHANGED <<analyzer, http, clock, eng>>

\* lines 317-352
Assemble(t) ==
    /\ call[t].pc = "assemble"
    /\ call' = [call EXCEPT
            ![t].pc = "returned",
            ![t].result = ResultRecord(call[t].signal_quality, call[t].r_peaks,
                                       call[t].hr, call[t].hrv_metrics,
                                       call[t].verdict)]
    /\ UNCHANGED <<analyzer, http, clock, eng>>

\* lines 354-367: the fault is caught and the degraded record returned; a
\* fault the clause does not catch leaves analyze.
Except(t) ==
    /\ call[t].pc = "except"
    /\ IF Catches(call[t].fault)
       THEN call' = [call EXCEPT ![t].pc = "returned",
                                 ![t].result = ErrorRecord(call[t].fault.msg)]
       ELSE call' = [call EXCEPT ![t].pc = "raised"]
    /\ UNCHANGED <<analyzer, http, clock, eng>>

AnalyzeStep(t) ==
    \/ AssessQuality(t)
    \/ DetectQRS(t)
    \/ HeartRate(t)
    \/ HRV(t)
    \/ Arrhythmias(t)
    \/ Assemble(t)
    \/ Except(t)

\* ------------------------------------------- SpecAnalyze: one call of analyze
InitAnalyze ==
    /\ analyzer \in Analyzers
    /\ \E sig \in Signals, sample_rate \in SampleRates :
          call = [t \in Threads |->
                    IF t = 1 THEN StartCall(sig, sample_rate) ELSE IdleCall]
    /\ http = [t \in Threads |-> IdleHttp]
    /\ clock = 0
    /\ eng = IdleEng

NextAnalyze == AnalyzeStep(1)

SpecAnalyze == InitAnalyze /\ [][NextAnalyze]_vars

\* ------------------------------------------------------------ HTTP requests
Point(key, ok, v, k) == [key |-> key, ok |-> ok, v |-> v, k |-> k]

\* ecgData: runs of points; key = FALSE is a point without 'voltage_mv'.
Ecg(points, wave) == [points |-> points, wave |-> wave]

EcgNormal == Ecg(<<Point(TRUE, TRUE, 0, 160), Point(TRUE, TRUE, 20, 160)>>,
                 Wave(4, <<24>>, <<2>>, 11))

EcgFast == Ecg(<<Point(TRUE, TRUE, 0, 160), Point(TRUE, TRUE, 20, 8)>>,
               Wave(4, <<6>>, <<2>>, 11))

EcgNonNumeric == Ecg(<<Point(TRUE, TRUE, 0, 8), Point(TRUE, FALSE, 0, 8)>>, FlatWave)

EcgShort == Ecg(<<Point(TRUE, TRUE, 20, 8)>>, FlatWave)

EcgNoVoltage == Ecg(<<Point(TRUE, TRUE, 0, 8), Point(FALSE, TRUE, 0, 8)>>, FlatWave)

EcgInputs == {EcgNormal, EcgFast, EcgNonNumeric, EcgShort, EcgNoVoltage}

\* A JSON object of a request: the keys it has and their values.
Session(has, sessionId, ecgData, sampleRate) ==
    [kind |-> "object", has |-> has, sessionId |-> sessionId, ecgData |-> ecgData,
     sampleRate |-> sampleRate]

\* No JSON body at all, the JSON null, and JSON objects.
NoBody == [kind |-> "none"]

NullBody == [kind |-> "null"]

AnalyzeBodies ==
    {NoBody, NullBody, Session({}, "", EcgShort, 0), Session({"sessionId"}, "s1", EcgShort, 0)}
      \cup {Session({"ecgData"}, "", e, 0) : e \in EcgInputs}
      \cup {Session({"sessionId", "ecgData", "sampleRate"}, "s1", e, r) :
                e \in EcgInputs, r \in {0, 31}}

\* [point['voltage_mv'] for point in ecg_data]
Voltages(ecgData) ==
    [runs |-> [i \in DOMAIN ecgData.points |->
                 Run(ecgData.points[i].ok, ecgData.points[i].v, ecgData.points[i].k)],
     wave |-> ecgData.wave]

\* ... which raises KeyError on a point without the key.
ExtractFault(ecgData) ==
    IF \E i \in DOMAIN ecgData.points : ecgData.points[i].k > 0 /\ ~ecgData.points[i].key
    THEN Fault("KeyError", "'voltage_mv'")
    ELSE NoFault

\* request.get_json(): what it can return or raise for the body.  For a
\* request without a JSON body Flask returns None or raises an HTTPException
\* (415 or 400), by its version and the request's Content-Type.
GetJson(body) ==
    IF body.kind = "none"
    THEN {[data |-> NullBody, fault |-> NoFault],
          [data |-> NullBody, fault |-> Fault("HTTPException", "415 Unsupported Media Type")]}
    ELSE {[data |-> body, fault |-> NoFault]}

\* `not data`: None and the empty object are false.
Falsy(data) == data.kind = "null" \/ (data.kind = "object" /\ data.has = {})

\* data.get(key, default)
SessionId(data) == IF "sessionId" \in data.has THEN data.sessionId ELSE "unknown"

SampleRateOf(data) == IF "sampleRate" \in data.has THEN data.sampleRate ELSE DefaultSampleRate

Response(status, json) == [status |-> status, json |-> json]

ErrorResponse(status, msg) == Response(status, [error |-> msg])

\* ---------------------------------------------------------- POST /analyze
ReceiveAnalyze(t) ==
    /\ http[t].pc = "idle"
    /\ \E body \in AnalyzeBodies :
          http' = [http EXCEPT ![t] = [pc |-> "validate", route |-> "/analyze",
                                       body |-> body, data |-> NullBody]]
    /\ UNCHANGED <<analyzer, call, clock, eng>>

Respond(t, response) ==
    http' = [http EXCEPT ![t] = [pc |-> "responded", route |-> http[t].route,
                                 body |-> http[t].body, response |-> response]]

\* lines 64-67
Validate(t) ==
    /\ http[t].pc = "validate"
    /\ \E got \in GetJson(http[t].body) :
          IF got.fault # NoFault
          THEN Respond(t, ErrorResponse(500, got.fault.msg))
          ELSE IF Falsy(got.data) \/ "ecgData" \notin got.data.has
          THEN Respond(t, ErrorResponse(400, "Missing ecgData in request"))
          ELSE http' = [http EXCEPT ![t].pc = "extract", ![t].data = got.data]
    /\ UNCHANGED <<analyzer, call, clock, eng>>

\* lines 69-79, up to the entry of analyzer.analyze
Extract(t) ==
    /\ http[t].pc = "extract"
    /\ IF ExtractFault(http[t].data.ecgData) # NoFault
       THEN /\ Respond(t, ErrorResponse(500, ExtractFault(http[t].data.ecgData).msg))
            /\ call' = call
       ELSE /\ http' = [http EXCEPT ![t].pc = "analyze"]
            /\ call' = [call EXCEPT ![t] = StartCall(Voltages(http[t].data.ecgData),
                                                     SampleRateOf(http[t].data))]
    /\ UNCHANGED <<analyzer, clock, eng>>

\* result['sessionId'] = ..., result['timestamp'] = datetime.now().isoformat()
Stamped(result, session_id, now) ==
    [sessionId |-> session_id, timestamp |-> now] @@ result

\* lines 79-89: analyze has returned (or raised, were that possible)
Reply(t) ==
    /\ http[t].pc = "analyze"
    /\ call[t].pc \in {"returned", "raised"}
    /\ IF call[t].pc = "returned"
       THEN /\ Respond(t, Response(200, Stamped(call[t].result, SessionId(http[t].data),
                                                clock)))
            /\ clock' = clock + 1
       ELSE /\ Respond(t, ErrorResponse(500, call[t].fault.msg))
            /\ clock' = clock
    /\ UNCHANGED <<analyzer, call, eng>>

\* ------------------------------------------------------------- Spec: service
\* Two worker threads, each serving one POST /analyze on the shared analyzer.
Init ==
    /\ analyzer \in Analyzers
    /\ call = [t \in Threads |-> IdleCall]
    /\ http = [t \in Threads |-> IdleHttp]
    /\ clock = 0
    /\ eng = IdleEng

Next ==
    \E t \in Threads :
        \/ ReceiveAnalyze(t)
        \/ Validate(t)
        \/ Extract(t)
        \/ AnalyzeStep(t)
        \/ Reply(t)

Spec == Init /\ [][Next]_vars

\* ------------------------------------------------------ POST /batch-analyze
NoEcgSession == Session({"sessionId"}, "s0", EcgShort, 0)

BatchSessions ==
    {NoEcgSession}
      \cup {Session({"sessionId", "ecgData", "sampleRate"}, "s1", e, 31) : e \in EcgInputs}
      \cup {Session({"ecgData"}, "", EcgNormal, 0)}

\* A body {"sessions": [...]}, or an object without the key.
Batch(has, sessions) == [kind |-> "object", has |-> has, sessions |-> sessions]

BatchBodies ==
    {NoBody, NullBody, Batch({}, <<>>)}
      \cup {Batch({"sessions"}, q) : q \in SeqsUpTo(BatchSessions, MaxSessions)}

\* session['ecgData'] raises KeyError when the session has no such key.
SessionFault(session) ==
    IF "ecgData" \notin session.has THEN Fault("KeyError", "'ecgData'")
    ELSE ExtractFault(session.ecgData)

\* result['sessionId'] = session.get('sessionId', 'unknown')
Tagged(result, session_id) == [sessionId |-> session_id] @@ result

ReceiveBatch(t) ==
    /\ http[t].pc = "idle"
    /\ \E body \in BatchBodies :
          http' = [http EXCEPT ![t] = [pc |-> "sessions", route |-> "/batch-analyze",
                                       body |-> body, sessions |-> <<>>,
                                       results |-> <<>>]]
    /\ UNCHANGED <<analyzer, call, clock, eng>>

\* lines 105-108: data.get on None raises AttributeError
BatchSessionsOf(t) ==
    /\ http[t].pc = "sessions"
    /\ \E got \in GetJson(http[t].body) :
          IF got.fault # NoFault
          THEN Respond(t, ErrorResponse(500, got.fault.msg))
          ELSE IF got.data.kind = "null"
          THEN Respond(t, ErrorResponse(500, "'NoneType' object has no attribute 'get'"))
          ELSE http' = [http EXCEPT
                    ![t].pc = "loop",
                    ![t].sessions = IF "sessions" \in got.data.has
                                    THEN got.data.sessions ELSE <<>>]
    /\ UNCHANGED <<analyzer, call, clock, eng>>

\* lines 109-111: the next session of the loop, up to the entry of analyze
BatchNext(t) ==
    /\ http[t].pc = "loop"
    /\ Len(http[t].results) < Len(http[t].sessions)
    /\ LET session == http[t].sessions[Len(http[t].results) + 1]
       IN  IF SessionFault(session) # NoFault
           THEN /\ Respond(t, ErrorResponse(500, SessionFault(session).msg))
                /\ call' = call
           ELSE /\ http' = [http EXCEPT ![t].pc = "analyze_session"]
                /\ call' = [call EXCEPT ![t] = StartCall(Voltages(session.ecgData),
                                                         SampleRateOf(session))]
    /\ UNCHANGED <<analyzer, clock, eng>>

\* lines 111-113: analyze has returned (or raised, were that possible)
BatchCollect(t) ==
    /\ http[t].pc = "analyze_session"
    /\ call[t].pc \in {"returned", "raised"}
    /\ LET session == http[t].sessions[Len(http[t].results) + 1]
       IN  IF call[t].pc = "returned"
           THEN http' = [http EXCEPT
                     ![t].pc = "loop",
                     ![t].results = Append(http[t].results,
                                           Tagged(call[t].result, SessionId(session)))]
           ELSE Respond(t, ErrorResponse(500, call[t].fault.msg))
    /\ call' = [call EXCEPT ![t] = IdleCall]
    /\ UNCHANGED <<analyzer, clock, eng>>

\* lines 115-119
BatchReply(t) ==
    /\ http[t].pc = "loop"
    /\ Len(http[t].results) = Len(http[t].sessions)
    /\ Respond(t, Response(200, [results |-> http[t].results,
                                  count |-> Len(http[t].results),
                                  timestamp |-> clock]))
    /\ clock' = clock + 1
    /\ UNCHANGED <<analyzer, call, eng>>

\* --------------------------------------- SpecBatch: one POST /batch-analyze
NextBatch ==
    \/ ReceiveBatch(1)
    \/ BatchSessionsOf(1)
    \/ BatchNext(1)
    \/ AnalyzeStep(1)
    \/ BatchCollect(1)
    \/ BatchReply(1)

SpecBatch == Init /\ [][NextBatch]_vars

\* ------------------------- SpecRules: detect_arrhythmias, one rule at a time
\* RR intervals in units of 1/25 s (0.8 s, 0.88 s, 1.6 s).
RuleIntervalValues == {20, 22, 40}

RuleIntervals == {[s |-> q, d |-> 25] : q \in SeqsUpTo(RuleIntervalValues, MaxIntervals)}

RuleRates(rr) ==
    {[n |-> b, d |-> 1] : b \in {35, 50, 75, 120, 160}}
      \cup (IF Len(rr.s) > 0 THEN {MeanRate(rr)} ELSE {})

\* writes: the risk levels the rules have assigned so far, in order.
InitRules ==
    /\ analyzer \in Analyzers
    /\ call = [t \in Threads |-> IdleCall]
    /\ http = [t \in Threads |-> IdleHttp]
    /\ clock = 0
    /\ \E rr \in RuleIntervals : \E heart_rate \in RuleRates(rr) :
          eng = [pc |-> "enough", heart_rate |-> heart_rate, rr |-> rr,
                 st |-> RuleStart, writes |-> <<>>]

\* lines 174-186
EnoughData ==
    /\ eng.pc = "enough"
    /\ IF Len(eng.rr.s) < 2
       THEN eng' = [eng EXCEPT !.pc = "done", !.st = InsufficientData]
       ELSE eng' = [eng EXCEPT !.pc = "bradycardia"]
    /\ UNCHANGED <<analyzer, call, http, clock>>

\* The engine after a rule: a rule that fires assigns the risk level.
Fired(st, pc) ==
    [eng EXCEPT !.pc = pc, !.st = st,
                !.writes = IF st # eng.st THEN Append(eng.writes, st.risk_level)
                           ELSE eng.writes]

\* lines 188-205
Bradycardia ==
    /\ eng.pc = "bradycardia"
    /\ eng' = Fired(RuleBradycardia(eng.st, eng.heart_rate, eng.rr), "tachycardia")
    /\ UNCHANGED <<analyzer, call, http, clock>>

\* lines 207-235
Tachycardia ==
    /\ eng.pc = "tachycardia"
    /\ eng' = Fired(RuleTachycardia(eng.st, eng.heart_rate, eng.rr), "irregular")
    /\ UNCHANGED <<analyzer, call, http, clock>>

\* lines 237-261
Irregular ==
    /\ eng.pc = "irregular"
    /\ eng' = Fired(RuleIrregular(eng.st, eng.heart_rate, eng.rr), "pvc")
    /\ UNCHANGED <<analyzer, call, http, clock>>

\* lines 263-280
PVC ==
    /\ eng.pc = "pvc"
    /\ eng' = Fired(RulePVC(eng.st, eng.heart_rate, eng.rr), "normal")
    /\ UNCHANGED <<analyzer, call, http, clock>>

\* lines 282-293
Normal ==
    /\ eng.pc = "normal"
    /\ eng' = [eng EXCEPT !.pc = "done",
                          !.st = RuleNormal(eng.st, eng.heart_rate, eng.rr)]
    /\ UNCHANGED <<analyzer, call, http, clock>>

NextRules ==
    \/ EnoughData
    \/ Bradycardia
    \/ Tachycardia
    \/ Irregular
    \/ PVC
    \/ Normal

SpecRules == InitRules /\ [][NextRules]_vars

\* ------- SpecRecommend: detect_arrhythmias, then _generate_recommendations
\* analyze line 351: the recommendations for the verdict of line 315.
Recommend ==
    /\ eng.pc = "done"
    /\ eng' = [pc |-> "recommended", heart_rate |-> eng.heart_rate, rr |-> eng.rr,
               st |-> eng.st, writes |-> eng.writes,
               recommendations |->
                   generate_recommendations(eng.st.classification, eng.st.risk_level,
                                            eng.heart_rate)]
    /\ UNCHANGED <<analyzer, call, http, clock>>

NextRecommend ==
    \/ EnoughData
    \/ Bradycardia
    \/ Tachycardia
    \/ Irregular
    \/ PVC
    \/ Normal
    \/ Recommend

SpecRecommend == InitRules /\ [][NextRecommend]_vars

\* ===================================================================== properties
\* ---------------------------------------------------------------------- C1
\* The faulty inputs C1 names: a non-numeric entry, an empty or too short
\* trace, a sample rate of 0 or of at most 30.
C1_FaultyInput(c) ==
    \/ \E i \in DOMAIN c.ecg_signal.runs :
          c.ecg_signal.runs[i].k > 0 /\ ~c.ecg_signal.runs[i].ok
    \/ SigLen(c.ecg_signal.runs) <= 15
    \/ c.sample_rate <= 30

C1_Degraded(c) ==
    /\ c.result.classification = "Analysis Error"
    /\ c.result.confidence = 0
    /\ c.result.risk_level = "Unknown"
    /\ "error" \in DOMAIN c.result.details
    /\ c.result.details.error = c.fault.msg
    /\ c.result.details.error # ""
    /\ c.result.details.abnormalities = <<>>

\* C1: analyze never lets a fault of its pipeline reach the caller: a call is
\* never left by an exception, a started call is at a step of the pipeline or
\* in the except clause until it returns, and a call that returns after a fault, or on a faulty input, returns the
\* degraded record (classification "Analysis Error", confidence 0, risk_level
\* "Unknown", the fault's message under details.error, no abnormalities).
C1_NeverPropagates ==
    \A t \in Threads :
        /\ call[t].pc # "raised"
        /\ call[t].pc \in {"idle", "quality", "qrs", "rate", "hrv", "rules", "assemble",
                          "except", "returned"}
        /\ call[t].pc = "except" => call[t].fault # NoFault
        /\ call[t].pc = "returned" /\ (call[t].fault # NoFault \/ C1_FaultyInput(call[t]))
              => C1_Degraded(call[t])
        /\ call[t].pc = "returned" /\ call[t].fault = NoFault
              => call[t].result.classification # "Analysis Error"

\* A call at sample rate 0 has returned after the division by zero.
C1_Witness ==
    /\ call[1].pc = "returned"
    /\ call[1].sample_rate = 0
    /\ call[1].fault.type = "ZeroDivisionError"
    /\ call[1].result.classification = "Analysis Error"

\* ---------------------------------------------------------------------- C2
C2_Malformed(session) ==
    \/ "ecgData" \notin session.has
    \/ \E i \in DOMAIN session.ecgData.points :
          /\ session.ecgData.points[i].k > 0
          /\ ~session.ecgData.points[i].key \/ ~session.ecgData.points[i].ok

\* C2: a batch whose sessions list holds a malformed item (no ecgData, a point
\* without voltage_mv, a non-numeric voltage) is answered 200 with one result
\* per session in input order, count = the number of sessions, the malformed
\* items' results being the degraded record.
C2_BatchIsolatesItems ==
    \A t \in Threads :
        (/\ http[t].pc = "responded"
         /\ http[t].route = "/batch-analyze"
         /\ http[t].body.kind = "object"
         /\ "sessions" \in http[t].body.has
         /\ \E i \in DOMAIN http[t].body.sessions : C2_Malformed(http[t].body.sessions[i]))
        => /\ http[t].response.status = 200
           /\ DOMAIN http[t].response.json = {"results", "count", "timestamp"}
           /\ http[t].response.json.count = Len(http[t].body.sessions)
           /\ Len(http[t].response.json.results) = Len(http[t].body.sessions)
           /\ \A i \in DOMAIN http[t].body.sessions :
                 /\ http[t].response.json.results[i].sessionId
                        = SessionId(http[t].body.sessions[i])
                 /\ C2_Malformed(http[t].body.sessions[i])
                       => http[t].response.json.results[i].classification
                              = "Analysis Error"

\* ---------------------------------------------------------------------- C3
C3_RiskLevels == {"Low", "Medium", "High", "Critical", "Unknown"}

\* C3: a returned record's confidence (in thousandths) is 0 on the error path,
\* and otherwise within 850..1000 (good quality, more than 10 peaks), within
\* 650..850 (fair quality, more than 5 peaks) or exactly 500; its risk_level is
\* one of Low, Medium, High, Critical, Unknown.
C3_ConfidenceAndRisk ==
    \A t \in Threads :
        call[t].pc = "returned" =>
            LET r == call[t].result
                q == call[t].signal_quality.quality
                n == Len(call[t].r_peaks)
            IN  /\ r.confidence \in 0..1000
                /\ r.risk_level \in C3_RiskLevels
                /\ IF call[t].fault # NoFault THEN r.confidence = 0
                   ELSE IF q = "Good" /\ n > 10 THEN r.confidence \in 850..1000
                   ELSE IF q = "Fair" /\ n > 5  THEN r.confidence \in 650..850
                   ELSE r.confidence = 500

\* A good trace with more than 50 peaks has returned with confidence 1.00.
C3_Witness ==
    /\ call[1].pc = "returned"
    /\ call[1].signal_quality.quality = "Good"
    /\ Len(call[1].r_peaks) > 50
    /\ call[1].result.confidence = 1000

\* ---------------------------------------------------------------------- C4
\* The number of consecutive RR differences above 120 ms.
C4_Large(rr) ==
    Cardinality({i \in 1..(Len(rr.s) - 1) :
                    100 * Abs(rr.s[i + 1] - rr.s[i]) > 12 * rr.d})

\* The coefficient of variation (population std / mean) is above 25 %.
C4_CVAbove25(rr) ==
    16 * (Len(rr.s) * SumSq(rr.s) - SumSeq(rr.s) * SumSeq(rr.s))
        > SumSeq(rr.s) * SumSeq(rr.s)

C4_HasFinding(st, type) ==
    \E i \in DOMAIN st.abnormalities : st.abnormalities[i].type = type

\* C4 as stated: with at least 2 intervals, a coefficient of variation above
\* 25 % and more than 30 % of the consecutive differences above 120 ms, the
\* verdict is "Atrial Fibrillation (Suspected)" with risk_level "High".
C4_AFibOfDifferences ==
    (/\ eng.pc = "done"
     /\ Len(eng.rr.s) >= 2
     /\ C4_CVAbove25(eng.rr)
     /\ 10 * C4_Large(eng.rr) > 3 * (Len(eng.rr.s) - 1))
    => /\ eng.st.classification = "Atrial Fibrillation (Suspected)"
       /\ eng.st.risk_level = "High"

\* C4: with at least 2 intervals, a coefficient of variation above 25 % and a
\* number of differences above 120 ms that exceeds 30 % of the number of
\* intervals, the verdict is "Atrial Fibrillation (Suspected)" whatever the
\* heart rate and the other rules; risk_level is "High" unless the PVC rule
\* fires too, which sets it to "Medium".
C4_AFibOfIntervals ==
    (/\ eng.pc = "done"
     /\ Len(eng.rr.s) >= 2
     /\ C4_CVAbove25(eng.rr)
     /\ 10 * C4_Large(eng.rr) > 3 * Len(eng.rr.s))
    => /\ eng.st.classification = "Atrial Fibrillation (Suspected)"
       /\ C4_HasFinding(eng.st, "Atrial Fibrillation")
       /\ eng.st.risk_level
             = IF C4_HasFinding(eng.st, "Premature Ventricular Contractions")
               THEN "Medium" ELSE "High"

\* Atrial fibrillation found at a slow heart rate, and the PVC rule fired too.
C4_Witness ==
    /\ eng.pc = "done"
    /\ C4_CVAbove25(eng.rr)
    /\ 10 * C4_Large(eng.rr) > 3 * Len(eng.rr.s)
    /\ eng.heart_rate.n < 40 * eng.heart_rate.d
    /\ eng.st.classification = "Atrial Fibrillation (Suspected)"
    /\ C4_HasFinding(eng.st, "Premature Ventricular Contractions")

\* ---------------------------------------------------------------------- C5
C5_FewPeaks(c) ==
    /\ c.pc = "returned"
    /\ c.fault = NoFault
    /\ Len(c.r_peaks) < 2

C5_NoRate(c) ==
    /\ c.hr.heart_rate.n = 0
    /\ c.hr.rr_intervals.s = <<>>
    /\ c.result.details.heartRate = 0
    /\ c.result.confidence = 500

\* C5 as stated: with fewer than 2 peaks on a non-error path the heart rate is
\* 0, the RR list empty, the confidence 0.50 and the classification "Normal
\* Sinus Rhythm".
C5_FewPeaksNormal ==
    \A t \in Threads :
        C5_FewPeaks(call[t]) =>
            /\ C5_NoRate(call[t])
            /\ call[t].result.classification = "Normal Sinus Rhythm"

\* C5: with fewer than 2 peaks on a non-error path the heart rate is 0, the RR
\* list empty and the confidence 0.50; the classification is "Insufficient
\* Data" with risk_level "Unknown" and no abnormalities.
C5_FewPeaksInsufficient ==
    \A t \in Threads :
        C5_FewPeaks(call[t]) =>
            /\ C5_NoRate(call[t])
            /\ call[t].result.classification = "Insufficient Data"
            /\ call[t].result.risk_level = "Unknown"
            /\ call[t].result.details.abnormalities = <<>>

\* A flat trace of good length has returned with no peak at all.
C5_Witness ==
    /\ C5_FewPeaks(call[1])
    /\ call[1].r_peaks = <<>>
    /\ call[1].sample_rate = 250
    /\ call[1].result.confidence = 500

\* ---------------------------------------------------------------------- C6
\* C6: for a sample rate above 30 the detected peak indices are strictly
\* increasing and any two consecutive ones are at least 0.2 s x sample rate
\* samples apart.
C6_RefractoryDistance ==
    \A t \in Threads :
        (/\ call[t].pc \in {"rate", "hrv", "rules", "assemble", "returned"}
         /\ call[t].fault = NoFault
         /\ call[t].sample_rate > 30)
        => \A i \in 1..(Len(call[t].r_peaks) - 1) :
              /\ call[t].r_peaks[i] < call[t].r_peaks[i + 1]
              /\ 10 * (call[t].r_peaks[i + 1] - call[t].r_peaks[i])
                    >= 2 * call[t].sample_rate

\* ---------------------------------------------------------------------- C7
\* C7: analyze writes nothing to the shared analyzer, and what a call returns
\* is the function analyze(ecg_signal, sample_rate) of its own arguments,
\* whatever the other thread's call does meanwhile; so two calls with equal
\* arguments return equal records.
C7_NoSharedWrites ==
    [][/\ analyzer' = analyzer
       /\ \A t \in Threads :
             call'[t].pc = "returned" =>
                 call'[t].result = analyze(call'[t].ecg_signal, call'[t].sample_rate)
       /\ \A t, u \in Threads :
             (/\ call'[t].pc = "returned" /\ call'[u].pc = "returned"
              /\ call'[t].ecg_signal = call'[u].ecg_signal
              /\ call'[t].sample_rate = call'[u].sample_rate)
             => call'[t].result = call'[u].result]_vars

\* Thread 2 has returned from a call that overlapped the same call of thread 1,
\* which is still in the pipeline.
C7_Witness ==
    /\ call[1].pc = "hrv"
    /\ call[2].pc = "returned"
    /\ call[1].ecg_signal = call[2].ecg_signal
    /\ call[1].sample_rate = call[2].sample_rate
    /\ call[1].sample_rate # analyzer.sample_rate
    /\ call[2].fault = NoFault

\* ---------------------------------------------------------------------- C8
C8_LacksEcgData(body) ==
    body.kind # "object" \/ "ecgData" \notin body.has

\* C8: a POST /analyze whose body is missing, empty or without ecgData never
\* reaches analyze and is answered 400 with a JSON object holding only "error".
C8_MissingEcgData400 ==
    \A t \in Threads :
        (/\ http[t].pc \in {"validate", "extract", "analyze", "responded"}
         /\ http[t].route = "/analyze"
         /\ C8_LacksEcgData(http[t].body))
        => /\ call[t].pc = "idle"
           /\ http[t].pc \in {"validate", "responded"}
           /\ http[t].pc = "responded"
                 => /\ http[t].response.status = 400
                    /\ DOMAIN http[t].response.json = {"error"}

\* ---------------------------------------------------------------------- C9
C9_NonDecreasing(writes) ==
    \A i, j \in DOMAIN writes : i < j => C9_RiskRank(writes[i]) <= C9_RiskRank(writes[j])

\* C9 as stated: as the rules fire the risk level is only raised, and the
\* final one is the highest any fired rule assigned.
C9_RiskOnlyRaised ==
    /\ C9_NonDecreasing(eng.writes)
    /\ (eng.pc = "done" /\ eng.writes # <<>>)
          => \A i \in DOMAIN eng.writes :
                C9_RiskRank(eng.writes[i]) <= C9_RiskRank(eng.st.risk_level)

\* The risk level the rule of a finding assigns.
C9_RiskOf(f) ==
    IF f.type \in {"Ventricular Tachycardia", "Atrial Fibrillation"} THEN "High"
    ELSE IF f.type \in {"Irregular Rhythm", "Premature Ventricular Contractions"}
    THEN "Medium"
    ELSE IF f.type = "Normal" THEN "Low"
    ELSE f.severity

\* C9: each rule that fires overwrites the risk level, so with at least 2
\* intervals the final risk_level is the one assigned by the last rule that
\* fired (the irregularity and PVC rules lower an earlier "High" to "Medium").
C9_LastWriteWins ==
    (eng.pc = "done" /\ Len(eng.rr.s) >= 2)
    => /\ eng.st.abnormalities # <<>>
       /\ eng.st.risk_level
             = C9_RiskOf(eng.st.abnormalities[Len(eng.st.abnormalities)])
       /\ eng.writes # <<>> => eng.st.risk_level = eng.writes[Len(eng.writes)]

\* Severe bradycardia assigned "High" and a later rule lowered it to "Medium".
C9_Witness ==
    /\ eng.pc = "done"
    /\ Len(eng.writes) >= 2
    /\ eng.writes[1] = "High"
    /\ eng.st.abnormalities[1].type = "Sinus Bradycardia"
    /\ eng.st.risk_level = "Medium"

\* --------------------------------------------------------------------- C10
C10_Integrated(c) ==
    /\ c.pc \in {"rate", "hrv", "rules", "assemble", "returned"}
    /\ c.fault = NoFault
    /\ c.sample_rate > 30

\* C10 as stated: the integration window is 0.15 x sample rate rounded to the
\* nearest whole number of samples, halves up (38 at 250 Hz).
C10_WindowRounded ==
    \A t \in Threads :
        C10_Integrated(call[t]) =>
            /\ 100 * call[t].window_size > 15 * call[t].sample_rate - 50
            /\ 100 * call[t].window_size <= 15 * call[t].sample_rate + 50

\* C10: the integration window is 0.15 x sample rate truncated to a whole
\* number of samples (37 at 250 Hz), the same number at every index.
C10_WindowTruncated ==
    \A t \in Threads :
        C10_Integrated(call[t]) =>
            /\ 100 * call[t].window_size <= 15 * call[t].sample_rate
            /\ 100 * (call[t].window_size + 1) > 15 * call[t].sample_rate
            /\ call[t].sample_rate = 250 => call[t].window_size = 37

\* The integration has run at 250 Hz with a window of 37 samples.
C10_Witness ==
    /\ C10_Integrated(call[1])
    /\ call[1].sample_rate = 250
    /\ call[1].window_size = 37
    /\ Len(call[1].r_peaks) > 0

\* --------------------------------------------------------------------- C11
\* The labels the rule engine returns that contain each word.
C11_TachycardiaLabels == {"Sinus Tachycardia", "Ventricular Tachycardia (Suspected)"}

C11_BradycardiaLabels == {"Sinus Bradycardia"}

C11_FibrillationLabels == {"Atrial Fibrillation (Suspected)"}

C11_NormalLabels == {"Normal Sinus Rhythm"}

C11_Labels ==
    C11_TachycardiaLabels \cup C11_BradycardiaLabels \cup C11_FibrillationLabels
        \cup C11_NormalLabels
        \cup {"Sinus Arrhythmia", "Premature Ventricular Contractions", "Insufficient Data"}

C11_Block(present, block) == IF present THEN block ELSE <<>>

C11_Expected(classification, risk_level) ==
    C11_Block(risk_level \in {"High", "Critical"}, UrgentBlock)
    \o C11_Block(classification \in C11_TachycardiaLabels, TachycardiaBlock)
    \o C11_Block(classification \in C11_BradycardiaLabels, BradycardiaBlock)
    \o C11_Block(classification \in C11_FibrillationLabels, FibrillationBlock)
    \o C11_Block(classification \in C11_NormalLabels, NormalBlock)

\* C11: for every (classification, risk_level) the rule engine returns, the
\* recommendations are exactly the urgent block iff the risk is High or
\* Critical, then the Tachycardia, Bradycardia, Fibrillation and Normal blocks,
\* each iff the label contains its word (Normal: is "Normal Sinus Rhythm"), in
\* that order; the urgent block, when present, is at the head.
C11_RecommendationOrder ==
    eng.pc = "recommended" =>
        /\ eng.st.classification \in C11_Labels
        /\ eng.recommendations = C11_Expected(eng.st.classification, eng.st.risk_level)
        /\ eng.st.risk_level \in {"High", "Critical"}
              => /\ Len(eng.recommendations) >= 2
                 /\ SubSeq(eng.recommendations, 1, 2) = UrgentBlock
        /\ \A i, j \in DOMAIN eng.recommendations :
              eng.recommendations[i] = eng.recommendations[j] => i = j

\* A high-risk tachycardia verdict got the urgent block and then the
\* Tachycardia block.
C11_Witness ==
    /\ eng.pc = "recommended"
    /\ eng.st.risk_level = "High"
    /\ eng.st.classification = "Ventricular Tachycardia (Suspected)"
    /\ eng.recommendations = UrgentBlock \o TachycardiaBlock

\* --------------------------------------------------------------------- C12
C12_NormalLabel(st) == st.classification = "Normal Sinus Rhythm"

C12_OnlyNormalFinding(st) ==
    /\ Len(st.abnormalities) = 1
    /\ st.abnormalities[1].type = "Normal"
    /\ st.abnormalities[1].severity = "None"

C12_LowRisk(st) == st.risk_level = "Low"

\* C12: with at least 2 intervals, whatever the heart rate, the verdict has
\* classification "Normal Sinus Rhythm" iff its abnormalities are exactly one
\* entry of type "Normal" and severity "None" iff its risk_level is "Low"; a
\* "Normal" entry never stands next to another finding; and between the rules,
\* a finding has been appended iff the classification has left "Normal Sinus
\* Rhythm" iff the risk has left "Low".
C12_NormalEquivalence ==
    /\ (eng.pc = "done" /\ Len(eng.rr.s) >= 2)
          => /\ C12_NormalLabel(eng.st) <=> C12_OnlyNormalFinding(eng.st)
             /\ C12_OnlyNormalFinding(eng.st) <=> C12_LowRisk(eng.st)
             /\ eng.st.abnormalities # <<>>
             /\ \A i \in DOMAIN eng.st.abnormalities :
                   eng.st.abnormalities[i].type = "Normal"
                       => Len(eng.st.abnormalities) = 1
    /\ eng.pc \in {"bradycardia", "tachycardia", "irregular", "pvc", "normal"}
          => /\ eng.st.abnormalities = <<>> <=> C12_NormalLabel(eng.st)
             /\ eng.st.abnormalities = <<>> <=> C12_LowRisk(eng.st)
             /\ \A i \in DOMAIN eng.st.abnormalities :
                   eng.st.abnormalities[i].type # "Normal"

\* Only the PVC rule fired, at a normal heart rate: the verdict left "Normal
\* Sinus Rhythm" and "Low" with its single finding.
C12_Witness ==
    /\ eng.pc = "done"
    /\ Len(eng.rr.s) >= 2
    /\ Len(eng.st.abnormalities) = 1
    /\ eng.st.abnormalities[1].type = "Premature Ventricular Contractions"
    /\ eng.st.classification = "Premature Ventricular Contractions"
    /\ eng.st.risk_level = "Medium"

====
